---- MODULE Spec2Model ----
(***************************************************************************)
(* Model of ankisync.py: the unidirectional, destructive sync of a set of  *)
(* TiddlyWiki notes (TwNote) into an Anki collection (col).                *)
(*                                                                         *)
(* The collection is the state: its notes (each with a note type, fields   *)
(* and cards), its decks and its registered note types.  sync() is         *)
(* modelled statement by statement: the precondition check and the diff    *)
(* (SyncStart), one iteration of the add loop (AddNote), the three steps   *)
(* of one iteration of the edit loop (EditTypeCheck, EditFieldCheck,       *)
(* EditUpdateDeck), the two log lines between the loops (EndAdds,          *)
(* EndEdits) and the bulk removal with the return (RemoveNotes).           *)
(***************************************************************************)
EXTENDS Integers, FiniteSets, Sequences, TLC

(* ------------------------------ bounds --------------------------------- *)

\* Highest note id the collection hands out (ids are never reused).
MaxNid == 3

\* Last day of the modelled calendar (days are counted from 0).
MaxDay == 1

(* --------------------------- Python values ----------------------------- *)

\* Python's None where a string is expected (target_deck, by_name result).
None == "<None>"

\* "No card" in a card map (cmap value None).
NoCard == -1

(* --------------------- trmodels (note type schemas) -------------------- *)

QuestionType == "TiddlyRemember Q&A"
ClozeType == "TiddlyRemember Cloze"
\* A note type of the collection that is not one of TiddlyRemember's.
BasicType == "Basic"

all_note_types == {QuestionType, ClozeType}

ID_FIELD_NAME == "ID"

\* Field names of a note type.
FieldNames(model) ==
    IF model = QuestionType THEN {"Question", "Answer", ID_FIELD_NAME}
    ELSE IF model = ClozeType THEN {"Text", ID_FIELD_NAME}
    ELSE {"Front", ID_FIELD_NAME}

\* Is the note type a cloze type (cards come from the cloze numbers of the
\* text) or a standard type (cards come from the templates)?
IsCloze(model) == model = ClozeType

\* Ordinals of the card templates of a note type.
TemplateOrds(model) == {0}

\* old_model_definition.field_remap(new): fields are carried over by name.
field_remap(old, new) ==
    [f \in FieldNames(old) |-> IF f \in FieldNames(new) THEN f ELSE None]

\* old_model_definition.card_remap(new): cards are carried over by ordinal.
card_remap(old, new) ==
    [o \in TemplateOrds(old) |-> IF o \in TemplateOrds(new) THEN o ELSE NoCard]

(* ------------------------------ util ----------------------------------- *)

pluralize(word, n) == IF n = 1 THEN word ELSE word \o "s"

(* ------------------------- field text values --------------------------- *)

OneCloze == "2+2={{c1::4}}"
TwoClozes == "{{c1::2}}+2={{c2::4}}"

\* Ordinals of the cloze deletions of a text.
ClozeOrds(text) ==
    IF text = OneCloze THEN {0}
    ELSE IF text = TwoClozes THEN {0, 1}
    ELSE {}

(* ---------------------- source notes (TwNote) -------------------------- *)

\* Progress snapshots (tw_note.schedule).
Sched1 == [ivl |-> 5, ease |-> 2500, lapses |-> 0, due |-> 3]
Sched2 == [ivl |-> 9, ease |-> 1300, lapses |-> 2, due |-> 0]

\* tw_note.schedule is a set: {} is None, {s} is the snapshot s.
TwQ(id, q, deck, sched) ==
    [id_ |-> id, model |-> QuestionType,
     fields |-> [f \in {"Question", "Answer"} |-> IF f = "Question" THEN q ELSE "4"],
     target_deck |-> deck, schedule |-> sched]

TwC(id, text, deck, sched) ==
    [id_ |-> id, model |-> ClozeType,
     fields |-> [f \in {"Text"} |-> text],
     target_deck |-> deck, schedule |-> sched]

Twids == {"t1", "t2"}

\* The source notes a run may be given.
SourceNotes ==
    { TwQ("t1", "2+2", None, {}),
      TwQ("t1", "2+2", "Math", {Sched1}),
      TwQ("t1", "3+1", None, {Sched2}),
      TwC("t1", OneCloze, None, {Sched2}),
      TwC("t1", TwoClozes, "Math", {Sched1}),
      TwQ("t2", "1+1", None, {}) }

\* Source sets in which two notes carry the same id.
DuplicateSets ==
    { { TwQ("t1", "2+2", None, {}), TwQ("t1", "3+1", None, {Sched2}) },
      { TwQ("t1", "2+2", None, {}), TwC("t1", OneCloze, None, {Sched2}),
        TwQ("t2", "1+1", None, {}) } }

\* The source sets a run may be given: sets with unique ids, and the sets
\* above.
SourceSets ==
    { s \in SUBSET SourceNotes :
        \A a \in s, b \in s : a.id_ = b.id_ => a = b } \cup DuplicateSets

DefaultDecks == {"Default", "Inbox"}

(* ------------------------------ state ---------------------------------- *)

VARIABLES
    \* trmodels
    schemas,             \* names of the note types by_name finds a schema for
    \* the collection
    note_types,          \* registered TiddlyRemember note types: status by name
    notes,               \* note id -> [mid, flds, cards]; cards: ord -> card
    nextNid,             \* the id the next added note gets
    decks,               \* names of the decks that exist
    \* sync(): arguments, locals and position
    pc,
    tw_notes, default_deck,
    extracted_notes_map, anki_notes_map,
    adds, edits, removes,
    todo_adds, todo_edits,
    note_id, anki_note,
    edit_count, userlog, result,
    \* bookkeeping of the current run
    notes0,              \* the notes when the run started
    flushes,             \* number of anki_note.flush() calls
    moves,               \* number of card.flush() calls (deck moves)
    remove_calls,        \* number of col.remove_notes() calls
    seeded,              \* note id -> the day _set_initial_scheduling wrote its cards
    born,                \* id -> number of notes ever created for it
    repeat               \* the run repeats the arguments of a completed run

vars == << schemas, note_types, notes, nextNid, decks, pc, tw_notes,
           default_deck, extracted_notes_map, anki_notes_map, adds, edits,
           removes, todo_adds, todo_edits, note_id, anki_note, edit_count,
           userlog, result, notes0, flushes, moves, remove_calls, seeded,
           born, repeat >>

colVars == << note_types, notes, nextNid, decks >>

\* trmodels.by_name(name): the schema of that name, or None.
by_name(name) == IF name \in schemas THEN name ELSE None

(* ------------------------- the collection ------------------------------ *)

\* A freshly generated card.
NewCard(did) ==
    [did |-> did, queue |-> "new", type |-> "new",
     ivl |-> 0, factor |-> 0, lapses |-> 0, due |-> 0]

\* The scheduling state of a card.
Scheduling(c) ==
    [queue |-> c.queue, type |-> c.type, ivl |-> c.ivl,
     factor |-> c.factor, lapses |-> c.lapses, due |-> c.due]

\* Ordinals of the cards a note of this type with these fields generates.
RequiredOrds(mid, flds) ==
    IF IsCloze(mid) THEN ClozeOrds(flds["Text"]) ELSE TemplateOrds(mid)

\* Card generation for a stored note: missing cards are created in the
\* deck of a sibling card; existing cards are kept as they are.
GenCards(n) ==
    LET sib == CHOOSE o \in DOMAIN n.cards : \A p \in DOMAIN n.cards : o <= p
        all == DOMAIN n.cards \cup RequiredOrds(n.mid, n.flds)
    IN [n EXCEPT !.cards =
            [o \in all |-> IF o \in DOMAIN n.cards THEN n.cards[o]
                           ELSE NewCard(n.cards[sib].did)]]

\* Note(col, model): a new in-memory note with empty fields.
BlankNote(mid) == [id |-> 0, mid |-> mid, flds |-> [f \in FieldNames(mid) |-> ""]]

\* col.decks.id(name): the deck of that name, created when absent.  A deck
\* id is represented by the deck's name.
DecksId(ds, name) == ds \cup {name}

\* col.add_note(n, deck): store the note under a new id with its cards,
\* all in the given deck (a note without any cloze gets a first card).
AddedNote(n, did) ==
    LET req == RequiredOrds(n.mid, n.flds)
        ords == IF req = {} THEN {0} ELSE req
    IN [mid |-> n.mid, flds |-> n.flds, cards |-> [o \in ords |-> NewCard(did)]]

\* Variant that also puts the cards of every other note in the deck.
ColAddNote_all(ns, nid, n, did) ==
    [k \in DOMAIN ns \cup {nid} |->
        IF k = nid THEN AddedNote(n, did)
        ELSE [ns[k] EXCEPT !.cards =
                 [o \in DOMAIN ns[k].cards |-> [ns[k].cards[o] EXCEPT !.did = did]]]]

ColAddNote(ns, nid, n, did) ==
    [k \in DOMAIN ns \cup {nid} |-> IF k = nid THEN AddedNote(n, did) ELSE ns[k]]

\* col.getNote(nid): the in-memory copy of a stored note.
GetNote(ns, nid) == [id |-> nid, mid |-> ns[nid].mid, flds |-> ns[nid].flds]

\* Variant of the search that is not restricted to the named types.
FindNotesOfTypes_all(ns, names) == DOMAIN ns

\* col.find_notes(model_search): ids of the notes of the named types.
FindNotesOfTypes(ns, names) == {k \in DOMAIN ns : ns[k].mid \in names}

\* col.remove_notes(nids)
ColRemoveNotes(ns, nids) == [k \in DOMAIN ns \ nids |-> ns[k]]

\* col.models.change(old, [nid], new, fmap, cmap): change the note type in
\* place.  A field of the new type gets the content of the old field mapped
\* to it, or is empty.  A card keeps its state under its new ordinal, or is
\* deleted when it has none; the cards of a cloze note are mapped by their
\* own ordinal.  Missing cards are then generated.
ChangedFields(old, newmid, fmap) ==
    [f \in FieldNames(newmid) |->
        IF \E g \in DOMAIN fmap : fmap[g] = f
        THEN old.flds[CHOOSE g \in DOMAIN fmap : fmap[g] = f]
        ELSE ""]

NewOrd(oldmid, newmid, cmap, o) ==
    IF IsCloze(oldmid)
    THEN IF ~IsCloze(newmid) /\ o \notin TemplateOrds(newmid) THEN NoCard ELSE o
    ELSE IF o \in DOMAIN cmap THEN cmap[o] ELSE NoCard

ChangedCards(old, newmid, cmap) ==
    LET kept == {o \in DOMAIN old.cards : NewOrd(old.mid, newmid, cmap, o) # NoCard}
        ords == {NewOrd(old.mid, newmid, cmap, o) : o \in kept}
    IN [p \in ords |->
            old.cards[CHOOSE o \in kept : NewOrd(old.mid, newmid, cmap, o) = p]]

ModelsChange(old, newmid, fmap, cmap) ==
    GenCards([mid |-> newmid,
              flds |-> ChangedFields(old, newmid, fmap),
              cards |-> ChangedCards(old, newmid, cmap)])

(* ------------------------------ TwNote --------------------------------- *)

\* tw_note.model_equal(anki_note)
model_equal(tw, an) == an.mid = tw.model

\* tw_note.fields_equal(anki_note): every source field and the id equal the
\* note's field of the same name.
fields_equal(tw, an) ==
    /\ ID_FIELD_NAME \in DOMAIN an.flds
    /\ an.flds[ID_FIELD_NAME] = tw.id_
    /\ \A f \in DOMAIN tw.fields : f \in DOMAIN an.flds /\ an.flds[f] = tw.fields[f]

\* tw_note.update_fields(anki_note): the fields of the in-memory note after
\* every source field and the id are written into it by name.
update_fields(tw, an) ==
    [an EXCEPT !.flds =
        [f \in DOMAIN an.flds |->
            IF f = ID_FIELD_NAME THEN tw.id_
            ELSE IF f \in DOMAIN tw.fields THEN tw.fields[f]
            ELSE an.flds[f]]]

(* ------------------------ helpers of sync() ---------------------------- *)

\* col.sched.set_due_date((cid,), str(days)): the card is due the given
\* number of days from today; a review card keeps its interval.
SetDueDate(c, day, days) == [c EXCEPT !.due = day + days]

\* _set_initial_scheduling(tw_note, anki_note, col) applied to the stored
\* note: every card becomes a review card with the snapshot's values.
\* Variant with the operands of the subtraction exchanged.
days_from_today_rev(s, day) == day - s.due

days_from_today(s, day) == s.due - day

SeedCard(c, s, day) ==
    SetDueDate([c EXCEPT !.queue = "rev", !.type = "rev", !.ivl = s.ivl,
                         !.factor = s.ease, !.lapses = s.lapses],
               day, days_from_today(s, day))

_set_initial_scheduling(tw, n, day) ==
    IF tw.schedule # {}
    THEN LET s == CHOOSE x \in tw.schedule : TRUE
         IN [n EXCEPT !.cards = [o \in DOMAIN n.cards |-> SeedCard(n.cards[o], s, day)]]
    ELSE n

\* Variant that ignores the deck the source note names.
DeckName_default(tw, dd) == dd

\* tw_note.target_deck or default_deck
DeckName(tw, dd) ==
    IF tw.target_deck \notin {None, ""} THEN tw.target_deck ELSE dd

\* Variant that moves every card, whatever deck it is in.
CardsToMove_all(n, did) == DOMAIN n.cards

\* The cards _update_deck moves: those not in the deck yet.
CardsToMove(n, did) == {o \in DOMAIN n.cards : n.cards[o].did # did}

\* Variant that also applies the source note's snapshot when moving cards.
_update_deck_seeding(tw, n, dd) ==
    LET new_did == DeckName(tw, dd)
        moved == [n EXCEPT !.cards =
                    [o \in DOMAIN n.cards |-> [n.cards[o] EXCEPT !.did = new_did]]]
    IN _set_initial_scheduling(tw, moved, 0)

\* Variant that moves the first card only.
_update_deck_first(tw, n, dd) ==
    LET new_did == DeckName(tw, dd)
        first == CHOOSE o \in DOMAIN n.cards : \A q \in DOMAIN n.cards : o <= q
    IN [n EXCEPT !.cards[first].did = new_did]

\* _update_deck(tw_note, anki_note, col, default_deck) applied to the
\* stored note.
_update_deck(tw, n, dd) ==
    LET new_did == DeckName(tw, dd)
    IN [n EXCEPT !.cards =
            [o \in DOMAIN n.cards |->
                IF o \in CardsToMove(n, new_did)
                THEN [n.cards[o] EXCEPT !.did = new_did]
                ELSE n.cards[o]]]

\* Variant without the assertion.
AssertFails_never(old_model_definition) == FALSE

\* Lines 33-37: the assertion on the old note type fails.
AssertFails(old_model_definition) == old_model_definition = None

\* Variant that passes a field map without any correspondence.
_change_note_type_nofmap(tw, an, n) ==
    LET old_model_definition == by_name(an.mid)
        fmap == [f \in FieldNames(old_model_definition) |-> None]
        cmap == card_remap(old_model_definition, tw.model)
    IN ModelsChange(n, tw.model, fmap, cmap)

\* _change_note_type(col, tw_note, anki_note) applied to the stored note;
\* the assertion on the old note type is checked by the caller.
_change_note_type(tw, an, n) ==
    LET old_model_definition == by_name(an.mid)
        fmap == field_remap(old_model_definition, tw.model)
        cmap == card_remap(old_model_definition, tw.model)
    IN ModelsChange(n, tw.model, fmap, cmap)

\* Variant that keeps the record read before the note type was changed.
Reread_stale(ns, an) == an

\* col.getNote(col.find_notes(f"nid:{anki_note.id}")[0]): the note read
\* again from the collection.
Reread(ns, an) == GetNote(ns, an.id)

\* Variant in which the in-memory fields are never stored.
Flush_nowrite(n, an) == n

\* anki_note.flush(): the fields of the in-memory note are stored, and the
\* collection generates the cards that are missing.
Flush(n, an) == GenCards([n EXCEPT !.flds = an.flds])

\* Variant that takes every source id for an id to add.
DiffAdds_all(extracted_twids, anki_twids) == extracted_twids

\* Lines 134-136: the diff of the two id sets.
DiffAdds(extracted_twids, anki_twids) == extracted_twids \ anki_twids
\* Variant that takes every source id for an id to edit.
DiffEdits_all(extracted_twids, anki_twids) == extracted_twids
DiffEdits(extracted_twids, anki_twids) == extracted_twids \cap anki_twids
\* Variant that takes the shared ids for the ids to remove.
DiffRemoves_shared(extracted_twids, anki_twids) == anki_twids \cap extracted_twids
\* Variant that takes every id of the collection for an id to remove.
DiffRemoves_all(extracted_twids, anki_twids) == anki_twids
DiffRemoves(extracted_twids, anki_twids) == anki_twids \ extracted_twids

\* Variant that deletes the note of one id only.
RemovedNids_one(amap, rem) ==
    IF rem = {} THEN {} ELSE {amap[CHOOSE twid \in rem : TRUE].id}

\* Line 165: the ids of the notes to delete.
RemovedNids(amap, rem) == {amap[twid].id : twid \in rem}

\* Variant that always uses the plural.
LogLine_plural(verb, n) == [verb |-> verb, count |-> n, noun |-> "notes"]

\* One line of the log: f"{verb} {n} {pluralize('note', n)}."
LogLine(verb, n) == [verb |-> verb, count |-> n, noun |-> pluralize("note", n)]

NoNote == [id |-> 0, mid |-> None, flds |-> [f \in {} |-> ""]]
EmptyMap == [t \in {} |-> NoNote]

(* ------------------------------- Init ---------------------------------- *)

\* A note of a foreign type that happens to carry the id "t1".
ForeignNote ==
    [mid |-> BasicType,
     flds |-> [f \in FieldNames(BasicType) |-> IF f = ID_FIELD_NAME THEN "t1" ELSE "front"],
     cards |-> [o \in {0} |-> NewCard("Default")]]

InitCol ==
    /\ note_types \in { [t \in all_note_types |-> "absent"],
                        [t \in all_note_types |-> "intact"],
                        [t \in all_note_types |->
                            IF t = ClozeType THEN "altered" ELSE "absent"] }
    /\ notes = [k \in {1} |-> ForeignNote]
    /\ nextNid = 2
    /\ decks = {"Default"}
    /\ pc = "idle"
    /\ tw_notes = {}
    /\ default_deck = "Default"
    /\ extracted_notes_map = EmptyMap
    /\ anki_notes_map = EmptyMap
    /\ adds = {} /\ edits = {} /\ removes = {}
    /\ todo_adds = {} /\ todo_edits = {}
    /\ note_id = None
    /\ anki_note = NoNote
    /\ edit_count = 0
    /\ userlog = << >>
    /\ result = << >>
    /\ notes0 = notes
    /\ flushes = 0 /\ moves = 0 /\ remove_calls = 0
    /\ seeded = [k \in {} |-> 0]
    /\ born = [t \in Twids |-> 0]
    /\ repeat = FALSE

\* by_name finds the schema of every note type all_note_types lists.
Init == InitCol /\ schemas = all_note_types

\* by_name does not find the schema of a note type all_note_types lists.
InitCorrupt == InitCol /\ schemas = {QuestionType}

(* ------------------------------ sync() --------------------------------- *)

\* trmodels.ensure_note_types(col): missing note types are registered.
ensure_note_types(nts) ==
    [t \in DOMAIN nts |-> IF nts[t] = "absent" THEN "intact" ELSE nts[t]]

\* trmodels.verify_note_types(col) passes.
verify_note_types(nts) == \A t \in DOMAIN nts : nts[t] # "altered"

\* Variant in which the failed verification does not stop sync().
verify_raises_never(nts) == FALSE

\* Line 119: verify_note_types raises and the exception leaves sync().
verify_raises(nts) == ~verify_note_types(nts)

\* Lines 116-138: the precondition check and the diff.
SyncStart(src, dd) ==
    /\ pc \in {"idle", "done", "failed"}
    /\ note_types' = ensure_note_types(note_types)
    /\ tw_notes' = src
    /\ default_deck' = dd
    /\ notes0' = notes
    /\ flushes' = 0 /\ moves' = 0 /\ remove_calls' = 0 /\ seeded' = [k \in {} |-> 0]
    /\ edit_count' = 0 /\ userlog' = << >> /\ result' = << >>
    /\ note_id' = None /\ anki_note' = NoNote
    /\ UNCHANGED << schemas, notes, nextNid, decks, born >>
    /\ IF verify_raises(note_types')
       THEN /\ pc' = "failed"
            /\ extracted_notes_map' = EmptyMap /\ anki_notes_map' = EmptyMap
            /\ adds' = {} /\ edits' = {} /\ removes' = {}
            /\ todo_adds' = {} /\ todo_edits' = {}
            /\ repeat' = FALSE
       ELSE LET extracted_twids == {n.id_ : n \in src}
                anki_nids == FindNotesOfTypes(notes, all_note_types)
                anki_twids == {notes[k].flds[ID_FIELD_NAME] : k \in anki_nids}
            IN /\ \E emap \in [extracted_twids -> src] :
                    /\ \A t \in extracted_twids : emap[t].id_ = t
                    /\ extracted_notes_map' = emap
                    /\ repeat' = (/\ pc = "done"
                                  /\ src = tw_notes
                                  /\ dd = default_deck
                                  /\ emap = extracted_notes_map)
               /\ \E amap \in [anki_twids -> anki_nids] :
                    /\ \A t \in anki_twids : notes[amap[t]].flds[ID_FIELD_NAME] = t
                    /\ anki_notes_map' = [t \in anki_twids |-> GetNote(notes, amap[t])]
               /\ adds' = DiffAdds(extracted_twids, anki_twids)
               /\ edits' = DiffEdits(extracted_twids, anki_twids)
               /\ removes' = DiffRemoves(extracted_twids, anki_twids)
               /\ todo_adds' = adds'
               /\ todo_edits' = edits'
               /\ nextNid + Cardinality(adds') - 1 <= MaxNid
               /\ pc' = "adds"

\* Lines 141-147: one iteration of the add loop; today is the day
\* datetime.now() and the collection's scheduler are in.
AddNote(id, today) ==
    /\ pc = "adds"
    /\ id \in todo_adds
    /\ LET tw_note == extracted_notes_map[id]
           n == update_fields(tw_note, BlankNote(tw_note.model))
           deck == DeckName(tw_note, default_deck)
           added == ColAddNote(notes, nextNid, n, deck)
       IN /\ decks' = DecksId(decks, deck)
          /\ notes' = [added EXCEPT ![nextNid] = _set_initial_scheduling(tw_note, @, today)]
          /\ seeded' = IF tw_note.schedule # {}
                        THEN [k \in DOMAIN seeded \cup {nextNid} |->
                                 IF k = nextNid THEN today ELSE seeded[k]]
                        ELSE seeded
    /\ nextNid' = nextNid + 1
    /\ born' = [born EXCEPT ![id] = @ + 1]
    /\ todo_adds' = todo_adds \ {id}
    /\ UNCHANGED << schemas, note_types, pc, tw_notes, default_deck,
                    extracted_notes_map, anki_notes_map, adds, edits, removes,
                    todo_edits, note_id, anki_note, edit_count, userlog,
                    result, notes0, flushes, moves, remove_calls, repeat >>

\* Variant that may leave the add loop before every id is added.
EndAdds_early ==
    /\ pc = "adds"
    /\ userlog' = Append(userlog, LogLine("Added", Cardinality(adds)))
    /\ edit_count' = 0
    /\ pc' = "edits"
    /\ UNCHANGED << schemas, born, colVars, tw_notes, default_deck,
                    extracted_notes_map, anki_notes_map, adds, edits, removes,
                    todo_adds, todo_edits, note_id, anki_note, result, notes0,
                    flushes, moves, remove_calls, seeded, repeat >>

\* Lines 149-151: the add loop is over.
EndAdds ==
    /\ pc = "adds"
    /\ todo_adds = {}
    /\ userlog' = Append(userlog, LogLine("Added", Cardinality(adds)))
    /\ edit_count' = 0
    /\ pc' = "edits"
    /\ UNCHANGED << schemas, born, colVars, tw_notes, default_deck,
                    extracted_notes_map, anki_notes_map, adds, edits, removes,
                    todo_adds, todo_edits, note_id, anki_note, result, notes0,
                    flushes, moves, remove_calls, seeded, repeat >>

\* Lines 152-157: an iteration of the edit loop starts; the note type is
\* changed when it differs from the source note's.
EditTypeCheck(id) ==
    /\ pc = "edits"
    /\ id \in todo_edits
    /\ note_id' = id
    /\ todo_edits' = todo_edits \ {id}
    /\ LET an == anki_notes_map[id]
           tw_note == extracted_notes_map[id]
       IN IF model_equal(tw_note, an)
          THEN /\ anki_note' = an
               /\ pc' = "edit_fields"
               /\ UNCHANGED << notes, anki_notes_map >>
          ELSE IF AssertFails(by_name(an.mid))
          THEN /\ pc' = "failed"
               /\ anki_note' = an
               /\ UNCHANGED << notes, anki_notes_map >>
          ELSE /\ notes' = [notes EXCEPT ![an.id] = _change_note_type(tw_note, an, @)]
               /\ anki_note' = Reread(notes', an)
               /\ anki_notes_map' = [anki_notes_map EXCEPT ![id] = anki_note']
               /\ pc' = "edit_fields"
    /\ UNCHANGED << schemas, born, note_types, nextNid, decks, tw_notes, default_deck,
                    extracted_notes_map, adds, edits, removes, todo_adds,
                    edit_count, userlog, result, notes0, flushes, moves,
                    remove_calls, seeded, repeat >>

\* Lines 158-161: the fields are compared and, when they differ, written
\* and flushed (the collection then generates the cards that are missing).
EditFieldCheck ==
    /\ pc = "edit_fields"
    /\ LET tw_note == extracted_notes_map[note_id]
       IN IF ~fields_equal(tw_note, anki_note)
          THEN /\ anki_note' = update_fields(tw_note, anki_note)
               /\ anki_notes_map' = [anki_notes_map EXCEPT ![note_id] = anki_note']
               /\ notes' = [notes EXCEPT ![anki_note.id] = Flush(@, anki_note')]
               /\ flushes' = flushes + 1
               /\ edit_count' = edit_count + 1
          ELSE UNCHANGED << anki_note, anki_notes_map, notes, flushes, edit_count >>
    /\ pc' = "edit_deck"
    /\ UNCHANGED << schemas, born, note_types, nextNid, decks, tw_notes, default_deck,
                    extracted_notes_map, adds, edits, removes, todo_adds,
                    todo_edits, note_id, userlog, result, notes0, moves,
                    remove_calls, seeded, repeat >>

\* Line 162: the cards are moved to the deck the source note names.
EditUpdateDeck ==
    /\ pc = "edit_deck"
    /\ LET tw_note == extracted_notes_map[note_id]
           new_did == DeckName(tw_note, default_deck)
       IN /\ decks' = DecksId(decks, new_did)
          /\ moves' = moves + Cardinality(CardsToMove(notes[anki_note.id], new_did))
          /\ notes' = [notes EXCEPT ![anki_note.id] = _update_deck(tw_note, @, default_deck)]
    /\ pc' = "edits"
    /\ note_id' = None
    /\ anki_note' = NoNote
    /\ UNCHANGED << schemas, born, note_types, nextNid, tw_notes, default_deck,
                    extracted_notes_map, anki_notes_map, adds, edits, removes,
                    todo_adds, todo_edits, edit_count, userlog, result,
                    notes0, flushes, remove_calls, seeded, repeat >>

\* Line 163: the edit loop is over.
EndEdits ==
    /\ pc = "edits"
    /\ todo_edits = {}
    /\ userlog' = Append(userlog, LogLine("Updated", edit_count))
    /\ pc' = "removes"
    /\ UNCHANGED << schemas, born, colVars, tw_notes, default_deck,
                    extracted_notes_map, anki_notes_map, adds, edits, removes,
                    todo_adds, todo_edits, note_id, anki_note, edit_count,
                    result, notes0, flushes, moves, remove_calls, seeded,
                    repeat >>

\* Lines 165-168: the bulk removal, the last log line and the return.
RemoveNotes ==
    /\ pc = "removes"
    /\ notes' = ColRemoveNotes(notes, RemovedNids(anki_notes_map, removes))
    /\ remove_calls' = remove_calls + 1
    /\ userlog' = Append(userlog, LogLine("Removed", Cardinality(removes)))
    /\ result' = userlog'
    /\ pc' = "done"
    /\ UNCHANGED << schemas, born, note_types, nextNid, decks, tw_notes, default_deck,
                    extracted_notes_map, anki_notes_map, adds, edits, removes,
                    todo_adds, todo_edits, note_id, anki_note, edit_count,
                    notes0, flushes, moves, seeded, repeat >>

Next ==
    \/ \E src \in SourceSets, dd \in DefaultDecks : SyncStart(src, dd)
    \/ \E id \in Twids, day \in 0..MaxDay : AddNote(id, day)
    \/ EndAdds
    \/ \E id \in Twids : EditTypeCheck(id)
    \/ EditFieldCheck
    \/ EditUpdateDeck
    \/ EndEdits
    \/ RemoveNotes

Spec == Init /\ [][Next]_vars

\* Runs with a schema lookup that misses a listed note type.
SpecCorrupt == InitCorrupt /\ [][Next]_vars

\* Runs with either schema lookup.
SpecAny == (Init \/ InitCorrupt) /\ [][Next]_vars

(* ========================= checked properties ========================== *)

\* Notes of TiddlyRemember's note types in a collection, and their ids.
Recognized(ns) == {k \in DOMAIN ns : ns[k].mid \in {QuestionType, ClozeType}}
Twid(ns, k) == ns[k].flds["ID"]
TargetIds(ns) == {Twid(ns, k) : k \in Recognized(ns)}
SourceIds == {n.id_ : n \in tw_notes}
UniqueIds(ns) ==
    \A j \in Recognized(ns), k \in Recognized(ns) : Twid(ns, j) = Twid(ns, k) => j = k

\* The recognized notes of a collection that carry a given id.
NotesWithId(ns, id) == {k \in Recognized(ns) : Twid(ns, k) = id}

\* The source note of an id in the current run.
SourceOf(id) == extracted_notes_map[id]

\* The deck a source note asks for.
WantedDeck(tw) == IF tw.target_deck = None THEN default_deck ELSE tw.target_deck

\* The fields a note of the source note's type must have to match it.
WantedFields(tw) ==
    IF tw.model = QuestionType
    THEN [f \in {"Question", "Answer", "ID"} |->
            IF f = "ID" THEN tw.id_ ELSE tw.fields[f]]
    ELSE [f \in {"Text", "ID"} |-> IF f = "ID" THEN tw.id_ ELSE tw.fields[f]]

\* C1 (Coverage): when the ids of the recognized notes were unique at the
\* start of a run, the ids of the recognized notes after the completed run
\* are exactly the ids of the source notes.
C1_Coverage ==
    (pc = "done" /\ UniqueIds(notes0)) => TargetIds(notes) = SourceIds

\* A completed run that both added and removed a note.
C1_Witness ==
    /\ pc = "done" /\ UniqueIds(notes0)
    /\ adds # {} /\ removes # {}

\* C2 (Idempotence): a run that repeats the source set and default deck of
\* the completed run before it writes no note, moves no card, and reports
\* zero updated notes.
C2_Idempotence ==
    repeat =>
        /\ flushes = 0
        /\ moves = 0
        /\ edit_count = 0
        /\ pc = "done" => result[2].verb = "Updated" /\ result[2].count = 0

\* A repeated run that has gone through the edit of a two-card note.
C2_Witness ==
    /\ repeat /\ pc = "done" /\ edits # {}
    /\ \E k \in Recognized(notes) : Cardinality(DOMAIN notes[k].cards) = 2

\* C3 (Add correctness): once the add loop is over, every id that was to be
\* added is carried by exactly one recognized note; the note is new, has the
\* source note's type and fields, and all its cards are in the deck the
\* source note names (the default deck when it names none).
C3_AddCorrect ==
    pc \in {"edits", "edit_fields", "edit_deck", "removes", "done"} =>
        \A id \in SourceIds \ TargetIds(notes0) :
            /\ Cardinality(NotesWithId(notes, id)) = 1
            /\ \A k \in NotesWithId(notes, id) :
                /\ k \notin DOMAIN notes0
                /\ notes[k].mid = SourceOf(id).model
                /\ notes[k].flds = WantedFields(SourceOf(id))
                /\ WantedDeck(SourceOf(id)) \in decks
                /\ \A o \in DOMAIN notes[k].cards :
                       notes[k].cards[o].did = WantedDeck(SourceOf(id))

\* A completed run that added a note naming its own deck and a note that
\* went to a default deck other than the one that existed.
C3_Witness ==
    /\ pc = "done"
    /\ default_deck = "Inbox"
    /\ \E id \in adds : SourceOf(id).target_deck = "Math"
    /\ \E id \in adds : SourceOf(id).target_deck = None

\* C4 (Remove correctness): after a completed run no recognized note whose
\* id was absent from the source set is left, whatever its state was, and
\* col.remove_notes was called exactly once, at the end of the run.
C4_RemoveCorrect ==
    /\ pc = "done" =>
          /\ \A k \in Recognized(notes0) :
                Twid(notes0, k) \notin SourceIds => k \notin DOMAIN notes
          /\ remove_calls = 1
    /\ pc \in {"adds", "edits", "edit_fields", "edit_deck", "removes"} =>
          remove_calls = 0

\* A completed run that removed two notes at once.
C4_Witness ==
    /\ pc = "done"
    /\ Cardinality(removes) = 2
    /\ Cardinality(DOMAIN notes0 \ DOMAIN notes) = 2

\* C5 (Edit result): after a completed run, the note of every id that was
\* both in the source set and in the collection is the same stored note,
\* has the source note's type and every field equal to the source's.
C5_EditResult ==
    pc = "done" =>
        \A id \in SourceIds \cap TargetIds(notes0) :
            \A k \in NotesWithId(notes0, id) :
                /\ k \in DOMAIN notes
                /\ notes[k].mid = SourceOf(id).model
                /\ notes[k].flds = WantedFields(SourceOf(id))

\* A completed run that changed the type of a note and wrote its fields.
C5_Witness ==
    /\ pc = "done"
    /\ flushes > 0
    /\ \E id \in edits : \E k \in NotesWithId(notes0, id) :
          notes0[k].mid # SourceOf(id).model

\* The scheduling state of a card that was never reviewed or seeded.
DefaultScheduling ==
    [queue |-> "new", type |-> "new", ivl |-> 0, factor |-> 0, lapses |-> 0, due |-> 0]

\* The scheduling state a progress snapshot asks for, written on a day.
SeededScheduling(s, day) ==
    [queue |-> "rev", type |-> "rev", ivl |-> s.ivl, factor |-> s.ease,
     lapses |-> s.lapses, due |-> day + (s.due - day)]

\* C6 (Migration ordering), as a property of every step: when a step leads
\* to the field comparison, the in-memory note has the source note's type and
\* is the note as stored (the re-read one); and for a note that existed before the
\* run, its type changes only in the first step of its edit, its fields are
\* written only in the second, its cards change deck only in the third.
C6_Step ==
    /\ pc' = "edit_fields" =>
          /\ anki_note'.mid = extracted_notes_map'[note_id'].model
          /\ anki_note'.id \in DOMAIN notes'
          /\ anki_note'.mid = notes'[anki_note'.id].mid
          /\ anki_note'.flds = notes'[anki_note'.id].flds
    /\ \A k \in (DOMAIN notes0 \cap DOMAIN notes) \cap DOMAIN notes' :
          /\ notes'[k].mid # notes[k].mid =>
                pc = "edits" /\ pc' = "edit_fields"
          /\ (notes'[k].mid = notes[k].mid /\ notes'[k].flds # notes[k].flds) =>
                /\ pc = "edit_fields" /\ pc' = "edit_deck"
                /\ notes[k].mid = SourceOf(note_id).model
          /\ (\E o \in DOMAIN notes[k].cards \cap DOMAIN notes'[k].cards :
                 notes'[k].cards[o].did # notes[k].cards[o].did) =>
                pc = "edit_deck" /\ pc' = "edits"


\* C6 (Migration ordering): every step of every run keeps the order type
\* migration, field comparison and update, deck update (C6_Step).
C6_MigrationOrdering == [][C6_Step]_vars

\* The fields of a note whose type was just changed are about to be compared.
C6_Witness ==
    /\ pc = "edit_fields"
    /\ notes0[anki_note.id].mid # anki_note.mid

\* C7 (Scheduling seeding scope), as a property of every step: a card that
\* exists before and after a step keeps its scheduling state; the seeder
\* writes only in the add loop, to a note that did not exist before the
\* step and that it has not written before.
C7_Step ==
    /\ \A k \in DOMAIN notes \cap DOMAIN notes' :
          \A o \in DOMAIN notes[k].cards \cap DOMAIN notes'[k].cards :
              Scheduling(notes'[k].cards[o]) = Scheduling(notes[k].cards[o])
    /\ \A k \in DOMAIN seeded' \ DOMAIN seeded :
          /\ pc = "adds" /\ pc' = "adds"
          /\ k \notin DOMAIN notes /\ k \in DOMAIN notes'
          /\ DOMAIN seeded' = DOMAIN seeded \cup {k}


\* C7 (Scheduling seeding scope): no step of any sequence of runs changes the
\* scheduling state of an existing card or seeds outside the add loop (C7_Step).
C7_SeedingScope == [][C7_Step]_vars

\* A completed run wrote the fields of a note whose source note carries a
\* snapshot that differs from the scheduling state of the note's card.
C7_Witness ==
    /\ pc = "done"
    /\ flushes > 0
    /\ \E id \in edits : \E k \in NotesWithId(notes, id) :
          \E s \in SourceOf(id).schedule :
              Scheduling(notes[k].cards[0]) # SeededScheduling(s, 0)

\* C8 (Seeder effect): during a run, every card of a note added in the run
\* from a source note with a snapshot is a review card with the snapshot's
\* interval, ease and lapses, due (due - today) days after the day it was
\* written; every card of a note added without a snapshot has the default
\* scheduling state and was not written by the seeder.
C8_SeederEffect ==
    pc \in {"adds", "edits", "edit_fields", "edit_deck", "removes", "done"} =>
        \A k \in DOMAIN notes \ DOMAIN notes0 :
            LET tw == SourceOf(Twid(notes, k))
            IN IF tw.schedule # {}
               THEN /\ k \in DOMAIN seeded
                    /\ \A s \in tw.schedule : \A o \in DOMAIN notes[k].cards :
                          Scheduling(notes[k].cards[o]) = SeededScheduling(s, seeded[k])
               ELSE /\ k \notin DOMAIN seeded
                    /\ \A o \in DOMAIN notes[k].cards :
                          Scheduling(notes[k].cards[o]) = DefaultScheduling

\* A run added a two-card note with a snapshot on day 1 and a note without.
C8_Witness ==
    /\ pc = "done"
    /\ \E k \in DOMAIN seeded :
          /\ seeded[k] = 1
          /\ Cardinality(DOMAIN notes[k].cards) = 2
    /\ \E k \in DOMAIN notes \ DOMAIN notes0 : k \notin DOMAIN seeded

\* The word the summary uses for a count.
NoteWord(c) == IF c = 1 THEN "note" ELSE "notes"

\* The fields of a shared id's note differed from the source's, the note
\* being looked at after its type was changed when the types differed.
FieldsDiffered(id) ==
    \E k \in NotesWithId(notes0, id) :
        LET tw == SourceOf(id)
            seen == IF notes0[k].mid = tw.model THEN notes0[k]
                    ELSE _change_note_type(tw, GetNote(notes0, k), notes0[k])
        IN seen.flds # WantedFields(tw)

\* C9 (Summary counts): a completed run returns the three lines Added,
\* Updated, Removed in this order; the counts are the number of source ids
\* not in the collection, the number of shared ids whose fields differed,
\* and the number of collection ids not in the source; each line says
\* "note" for a count of 1 and "notes" otherwise.
C9_Summary ==
    pc = "done" =>
        LET a == Cardinality(SourceIds \ TargetIds(notes0))
            u == Cardinality({id \in SourceIds \cap TargetIds(notes0) : FieldsDiffered(id)})
            r == Cardinality(TargetIds(notes0) \ SourceIds)
        IN result = << [verb |-> "Added", count |-> a, noun |-> NoteWord(a)],
                       [verb |-> "Updated", count |-> u, noun |-> NoteWord(u)],
                       [verb |-> "Removed", count |-> r, noun |-> NoteWord(r)] >>

\* A completed run added one note and only moved the cards of another.
C9_Witness ==
    /\ pc = "done"
    /\ Cardinality(adds) = 1
    /\ edits # {} /\ moves > 0 /\ edit_count = 0

\* C10 (Unrecognized-type frame), as a property of every step: a note of a
\* foreign type is left as it is and none is created; the notes the diff
\* reads are recognized ones, so an id carried only by a foreign note counts
\* as absent from the collection.
C10_Step ==
    /\ \A k \in DOMAIN notes :
          notes[k].mid \notin {QuestionType, ClozeType} =>
              k \in DOMAIN notes' /\ notes'[k] = notes[k]
    /\ \A k \in DOMAIN notes' \ DOMAIN notes :
          notes'[k].mid \in {QuestionType, ClozeType}
    /\ (pc # "adds" /\ pc' = "adds") =>
          /\ \A t \in DOMAIN anki_notes_map' :
                anki_notes_map'[t].id \in Recognized(notes)
          /\ adds' = {n.id_ : n \in tw_notes'} \ TargetIds(notes)


\* C10 (Unrecognized-type frame): no step of any run reads, changes, creates
\* or deletes a note of a foreign type (C10_Step).
C10_ForeignFrame == [][C10_Step]_vars

\* A completed run added a note for an id a foreign note carries too, and
\* removed another note.
C10_Witness ==
    /\ pc = "done"
    /\ removes # {}
    /\ \E k \in DOMAIN notes :
          /\ notes[k].mid = BasicType
          /\ Twid(notes, k) \in adds

\* C11 (Precondition failure), as a property of every step: while a
\* registered note type is altered, a step only registers missing note types
\* and ends the run as failed: no note, card or deck changes, no note id is
\* handed out and no diff is computed.
C11_Step ==
    (\E t \in DOMAIN note_types' : note_types'[t] = "altered") =>
        /\ pc' = "failed"
        /\ notes' = notes /\ decks' = decks /\ nextNid' = nextNid
        /\ adds' = {} /\ edits' = {} /\ removes' = {}
        /\ DOMAIN anki_notes_map' = {} /\ DOMAIN extracted_notes_map' = {}
        /\ \A t \in DOMAIN note_types :
              note_types'[t] # note_types[t] =>
                  note_types[t] = "absent" /\ note_types'[t] = "intact"

\* C11 (Precondition failure): every step taken while a note type is altered
\* satisfies C11_Step.
C11_PreconditionFailure == [][C11_Step]_vars

\* A run failed in the check after the check registered the missing type.
C11_Witness ==
    /\ pc = "failed" /\ note_id = None
    /\ note_types[ClozeType] = "altered"
    /\ note_types[QuestionType] = "intact"
    /\ tw_notes # {}

\* C12 (Fatal migration abort), as a property of every step: a type check
\* of a note whose type differs from the source's and has no schema fails
\* without changing the collection; the failed run has returned nothing, has
\* removed nothing, keeps every note that existed and every note it added,
\* and the only step after it is the start of another run.
C12_Step ==
    /\ (pc = "edits" /\ note_id' # None) =>
          LET an == anki_notes_map[note_id']
              tw == extracted_notes_map[note_id']
          IN (an.mid # tw.model /\ an.mid \notin schemas) =>
                /\ pc' = "failed"
                /\ notes' = notes /\ decks' = decks /\ nextNid' = nextNid
    /\ (pc' = "failed" /\ note_id' # None) =>
          /\ result' = << >>
          /\ remove_calls' = 0
          /\ DOMAIN notes0' \subseteq DOMAIN notes'
          /\ \A id \in adds' : Cardinality(NotesWithId(notes', id)) = 1
          /\ Len(userlog') = 1
    /\ (pc = "failed" /\ note_id # None) =>
          /\ notes' = notes
          /\ pc' \in {"adds", "failed"}
          /\ todo_edits' = edits'

\* C12 (Fatal migration abort): every step satisfies C12_Step.
C12_FatalAbort == [][C12_Step]_vars

\* A run failed in the type check of its first edit, with a second note
\* still to edit and after it had added nothing or something.
C12_Witness ==
    /\ pc = "failed" /\ note_id # None
    /\ todo_edits # {}
    /\ notes[anki_note.id].mid \notin schemas

\* C13 (Group placement), as a property of every step: the field check is
\* always followed by the deck update; the deck update makes sure the wanted
\* deck exists and moves exactly the cards that are in another deck; and a
\* run ends with all cards of every source id's note in the wanted deck.
C13_Step ==
    /\ pc = "edit_fields" => pc' = "edit_deck"
    /\ pc = "edit_deck" =>
          LET k == anki_note.id
              w == WantedDeck(SourceOf(note_id))
              away == {o \in DOMAIN notes[k].cards : notes[k].cards[o].did # w}
          IN /\ decks' = decks \cup {w}
             /\ DOMAIN notes'[k].cards = DOMAIN notes[k].cards
             /\ \A o \in DOMAIN notes[k].cards :
                   notes'[k].cards[o] =
                       IF o \in away THEN [notes[k].cards[o] EXCEPT !.did = w]
                       ELSE notes[k].cards[o]
             /\ moves' = moves + Cardinality(away)
    /\ pc' = "done" =>
          \A id \in SourceIds : \A k \in NotesWithId(notes', id) :
              /\ WantedDeck(SourceOf(id)) \in decks'
              /\ \A o \in DOMAIN notes'[k].cards :
                    notes'[k].cards[o].did = WantedDeck(SourceOf(id))

\* C13 (Group placement): every step satisfies C13_Step.
C13_GroupPlacement == [][C13_Step]_vars

\* A completed run changed the type of a note that now has two cards, did
\* not touch the fields of another, and moved cards.
C13_Witness ==
    /\ pc = "done"
    /\ moves > 1
    /\ \E id \in edits : \E k \in NotesWithId(notes0, id) :
          /\ notes0[k].mid # SourceOf(id).model
          /\ Cardinality(DOMAIN notes[k].cards) = 2

\* C14 (Identifier diff): during and after a run, adds, edits and removes are
\* the differences and the intersection of the source ids and the ids in the
\* collection as it was when the run started; they are pairwise disjoint
\* and cover both id sets; the notes created in the run are those of the
\* added ids handled so far, a note being edited existed before the run and
\* carries a shared id, and the notes gone after the run carried removed ids.
C14_Diff ==
    pc \in {"adds", "edits", "edit_fields", "edit_deck", "removes", "done"} =>
        LET S == SourceIds
            T == TargetIds(notes0)
            created == DOMAIN notes \ DOMAIN notes0
            gone == DOMAIN notes0 \ DOMAIN notes
        IN /\ adds = S \ T /\ edits = S \cap T /\ removes = T \ S
           /\ adds \cap edits = {} /\ adds \cap removes = {} /\ edits \cap removes = {}
           /\ (adds \cup edits) \cup removes = S \cup T
           /\ {Twid(notes, k) : k \in created} = adds \ todo_adds
           /\ Cardinality(created) = Cardinality(adds \ todo_adds)
           /\ todo_adds \subseteq adds /\ todo_edits \subseteq edits
           /\ pc \in {"edit_fields", "edit_deck"} =>
                 /\ note_id \in edits \ todo_edits
                 /\ anki_note.id \in DOMAIN notes0
                 /\ Twid(notes0, anki_note.id) = note_id
           /\ {Twid(notes0, k) : k \in gone} =
                 IF pc = "done" THEN removes ELSE {}

\* A completed run added one note and edited another.
C14_Witness ==
    /\ pc = "done"
    /\ adds # {} /\ edits # {}
    /\ flushes > 0

\* The ordinals of the cards a note matching a source note must have.
WantedOrds(tw) ==
    IF tw.model = ClozeType
    THEN (IF tw.fields["Text"] = TwoClozes THEN {0, 1} ELSE {0})
    ELSE {0}

\* The cards of a note that outlive the edit for a source note: all of them
\* when the type stays, the first one when it changes.
KeptOrds(old, tw) ==
    IF old.mid = tw.model THEN DOMAIN old.cards ELSE DOMAIN old.cards \cap {0}

\* The note an edit is to leave behind, computed from the note as it was
\* when the run started and its source note only.
EditedAsWanted(old, new, tw) ==
    LET untouched == old.mid = tw.model /\ old.flds = WantedFields(tw)
        ords == IF untouched THEN DOMAIN old.cards
                ELSE KeptOrds(old, tw) \cup WantedOrds(tw)
    IN /\ new.mid = tw.model
       /\ new.flds = WantedFields(tw)
       /\ DOMAIN new.cards = ords
       /\ \A o \in ords :
             /\ new.cards[o].did = WantedDeck(tw)
             /\ Scheduling(new.cards[o]) =
                   IF o \in KeptOrds(old, tw) THEN Scheduling(old.cards[o])
                   ELSE DefaultScheduling

\* The note an add is to leave behind, computed from its source note and
\* the day it was seeded only.
AddedAsWanted(k, new, tw) ==
    /\ new.mid = tw.model
    /\ new.flds = WantedFields(tw)
    /\ DOMAIN new.cards = WantedOrds(tw)
    /\ \A o \in DOMAIN new.cards :
          /\ new.cards[o].did = WantedDeck(tw)
          /\ Scheduling(new.cards[o]) =
                IF tw.schedule = {} THEN DefaultScheduling
                ELSE SeededScheduling(CHOOSE x \in tw.schedule : TRUE, seeded[k])

\* C15 (Order independence), as a property of every step: a step of the add
\* or edit loop changes no note but the one being handled; and at the end of
\* a run every note and the summary are what the notes at the start of the
\* run and the source notes determine one id at a time, whatever the order
\* in which the ids were handled (the store ids of added notes apart).
C15_Step ==
    /\ pc \in {"adds", "edits", "edit_fields", "edit_deck"} =>
          /\ Cardinality(DOMAIN notes' \ DOMAIN notes) <= 1
          /\ \A k \in DOMAIN notes :
                /\ k \in DOMAIN notes'
                /\ notes'[k] # notes[k] =>
                      /\ DOMAIN notes' = DOMAIN notes
                      /\ k \in Recognized(notes)
                      /\ Twid(notes, k) = (IF pc = "edits" THEN note_id' ELSE note_id)
                      /\ \A j \in DOMAIN notes \ {k} : notes'[j] = notes[j]
    /\ pc' = "done" =>
          /\ \A id \in SourceIds \cap TargetIds(notes0) :
                \A k \in NotesWithId(notes0, id) :
                    k \in DOMAIN notes' /\ EditedAsWanted(notes0[k], notes'[k], SourceOf(id))
          /\ \A id \in SourceIds \ TargetIds(notes0) :
                /\ Cardinality(NotesWithId(notes', id)) = 1
                /\ \A k \in NotesWithId(notes', id) :
                      AddedAsWanted(k, notes'[k], SourceOf(id))
          /\ TargetIds(notes') = SourceIds
          /\ \A k \in DOMAIN notes0 \ Recognized(notes0) :
                k \in DOMAIN notes' /\ notes'[k] = notes0[k]
          /\ Len(result') = 3
          /\ result'[1].count = Cardinality(SourceIds \ TargetIds(notes0))
          /\ result'[2].count =
                Cardinality({id \in SourceIds \cap TargetIds(notes0) :
                    \E k \in NotesWithId(notes0, id) :
                        \/ notes0[k].mid # SourceOf(id).model
                        \/ notes0[k].flds # WantedFields(SourceOf(id))})
          /\ result'[3].count = Cardinality(TargetIds(notes0) \ SourceIds)

\* C15 (Order independence): every step satisfies C15_Step.
C15_OrderIndependence == [][C15_Step]_vars

\* A completed run had two ids to add, and so two orders to add them in.
C15_Witness ==
    /\ pc = "done"
    /\ Cardinality(adds) = 2
    /\ DOMAIN seeded # {}

\* C16 (Phase ordering), as a property of every step: the diff is computed
\* only when no note type is altered; a note is created only in the add
\* loop, before any edit and any removal; an existing note changes only in
\* the edit loop, after every add and before any removal; notes are deleted
\* only by the bulk removal, after every add and edit, in the step that ends
\* the run; nothing changes between the end of a run and the next; and a
\* failed run has deleted no note.
C16_Step ==
    /\ (pc \in {"idle", "done", "failed"} /\ pc' = "adds") =>
          \A t \in DOMAIN note_types' : note_types'[t] = "intact"
    /\ (DOMAIN notes' \ DOMAIN notes # {}) =>
          /\ pc = "adds" /\ pc' = "adds"
          /\ todo_edits = edits /\ flushes = 0 /\ moves = 0
          /\ remove_calls = 0
    /\ (\E k \in DOMAIN notes \cap DOMAIN notes' : notes'[k] # notes[k]) =>
          /\ pc \in {"edits", "edit_fields", "edit_deck"}
          /\ todo_adds = {}
          /\ \A id \in adds : NotesWithId(notes, id) # {}
          /\ remove_calls = 0
    /\ (DOMAIN notes \ DOMAIN notes' # {}) =>
          /\ pc = "removes" /\ pc' = "done"
          /\ todo_adds = {} /\ todo_edits = {}
          /\ note_id = None
    /\ remove_calls' # remove_calls =>
          (pc' = "done" \/ (remove_calls' = 0 /\ pc \in {"idle", "done", "failed"}))
    /\ pc \in {"done", "failed"} => notes' = notes /\ decks' = decks
    /\ pc' = "failed" =>
          /\ DOMAIN notes0' \subseteq DOMAIN notes'
          /\ remove_calls' = 0

\* C16 (Phase ordering): every step satisfies C16_Step.
C16_PhaseOrdering == [][C16_Step]_vars

\* A run that added a note failed in its edit loop while a note whose id
\* the source set lacks is still in the collection.
C16_Witness ==
    /\ pc = "failed" /\ note_id # None
    /\ removes # {}
    /\ \A id \in removes : NotesWithId(notes, id) # {}

\* C17 (Note lifecycle), as a property of every step: a note is created
\* only for a source id that no recognized note carried when the run
\* started or carries now, and its cards are seeded from the snapshot of
\* the source note of this run; a recognized note is deleted only by the
\* bulk removal of a run whose source set lacks its id; and a recognized
\* note that is not deleted stays a recognized note with the same id.
C17_Step ==
    /\ \A k \in DOMAIN notes' \ DOMAIN notes :
          LET X == Twid(notes', k)
          IN /\ X \in SourceIds
             /\ NotesWithId(notes0, X) = {}
             /\ NotesWithId(notes, X) = {}
             /\ born'[X] = born[X] + 1
             /\ \A s \in SourceOf(X).schedule : \A o \in DOMAIN notes'[k].cards :
                   Scheduling(notes'[k].cards[o]) = SeededScheduling(s, seeded'[k])
    /\ \A k \in Recognized(notes) \ DOMAIN notes' :
          /\ Twid(notes, k) \notin SourceIds
          /\ pc = "removes"
    /\ \A k \in Recognized(notes) \cap DOMAIN notes' :
          /\ k \in Recognized(notes')
          /\ Twid(notes', k) = Twid(notes, k)
    /\ (\A t \in Twids : born'[t] = born[t]) => DOMAIN notes' \subseteq DOMAIN notes

\* C17 (Note lifecycle): every step satisfies C17_Step.
C17_Lifecycle == [][C17_Step]_vars

\* An id was added, removed and added again; its second note carries the
\* scheduling state of the snapshot of the last run.
C17_Witness ==
    /\ pc = "done"
    /\ born["t1"] = 2
    /\ \E k \in NotesWithId(notes, "t1") :
          /\ k \in DOMAIN seeded
          /\ Scheduling(notes[k].cards[0]) = SeededScheduling(Sched1, seeded[k])

\* C18 (Migration preserves state), as a property of every step: when the
\* type of a note is changed, the fields the two types share by name keep
\* their content and the others are empty; the card with a counterpart in
\* the new type is kept as it is, the others are dropped; the note handed
\* back is the stored note under the same id; and a card that the note gets
\* afterwards has the default scheduling state.
C18_Step ==
    /\ (pc = "edits" /\ pc' = "edit_fields"
        /\ anki_notes_map[note_id'].mid # SourceOf(note_id').model) =>
          LET k == anki_notes_map[note_id'].id
              tw == SourceOf(note_id')
              old == notes[k]
              new == notes'[k]
          IN /\ new.mid = tw.model
             /\ DOMAIN new.flds =
                   (IF tw.model = QuestionType THEN {"Question", "Answer", "ID"}
                    ELSE {"Text", "ID"})
             /\ \A f \in DOMAIN new.flds :
                   new.flds[f] = IF f \in DOMAIN old.flds THEN old.flds[f] ELSE ""
             /\ \A o \in DOMAIN old.cards :
                   IF o = 0
                   THEN o \in DOMAIN new.cards /\ new.cards[o] = old.cards[o]
                   ELSE o \notin DOMAIN new.cards
             /\ \A o \in DOMAIN new.cards \ DOMAIN old.cards :
                   Scheduling(new.cards[o]) = DefaultScheduling
             /\ anki_note' = [id |-> k, mid |-> new.mid, flds |-> new.flds]
             /\ k \in DOMAIN notes0
             /\ \A j \in DOMAIN notes \ {k} : j \in DOMAIN notes' /\ notes'[j] = notes[j]
    /\ pc = "edit_fields" =>
          \A o \in DOMAIN notes'[anki_note.id].cards \ DOMAIN notes[anki_note.id].cards :
              Scheduling(notes'[anki_note.id].cards[o]) = DefaultScheduling

\* C18 (Migration preserves state): every step satisfies C18_Step.
C18_MigrationPreserves == [][C18_Step]_vars

\* The type of a two-card note was changed: its second card is gone, its
\* first card is still the review card it was.
C18_Witness ==
    /\ pc = "edit_fields"
    /\ Cardinality(DOMAIN notes0[anki_note.id].cards) = 2
    /\ DOMAIN notes[anki_note.id].cards = {0}
    /\ notes[anki_note.id].cards[0].queue = "rev"
    /\ notes[anki_note.id].cards[0] = notes0[anki_note.id].cards[0]

\* C19 (Id uniqueness), as a property of every step: when no two recognized
\* notes share an id before a step, none do after it; and a note is never
\* created with an id a recognized note carries.
C19_Step ==
    /\ UniqueIds(notes) => UniqueIds(notes')
    /\ \A k \in DOMAIN notes' \ DOMAIN notes :
          \A j \in Recognized(notes) : Twid(notes, j) # Twid(notes', k)

\* C19 (Id uniqueness): every step satisfies C19_Step.
C19_Uniqueness == [][C19_Step]_vars

\* A completed run was given two source notes with the same id and added
\* one note for it.
C19_Witness ==
    /\ pc = "done"
    /\ \E a \in tw_notes, b \in tw_notes : a # b /\ a.id_ = b.id_ /\ a.id_ \in adds
    /\ \A id \in adds : Cardinality(NotesWithId(notes, id)) = 1

\* C20 (Assertion unreachable): the notes a run reads are of the note types
\* all_note_types lists; so when by_name finds a schema for each of these,
\* no run fails in the type check of an edit.
C20_AssertionUnreachable ==
    /\ \A t \in DOMAIN anki_notes_map : anki_notes_map[t].mid \in all_note_types
    /\ (\A t \in all_note_types : t \in schemas) => ~(pc = "failed" /\ note_id # None)

\* With every schema found, the type of a note was changed while a note of
\* a foreign type carries the same id.
C20_Witness ==
    /\ all_note_types \subseteq schemas
    /\ pc = "edit_deck"
    /\ notes0[anki_note.id].mid # notes[anki_note.id].mid
    /\ \E k \in DOMAIN notes \ Recognized(notes) : Twid(notes, k) = note_id

====
